---- MODULE Spec2Model ----
(***************************************************************************)
(* Model of crates/kubelet/src/config.rs: the kubelet configuration is     *)
(* resolved from partial sources (JSON configuration file, command line /  *)
(* environment, compiled defaults).                                        *)
(*                                                                         *)
(* Representation of values                                                *)
(*   Option<T>      None = [some |-> FALSE], Some(v) = [some |-> TRUE, ..] *)
(*   Result<T>      Ok(v) = [ok |-> TRUE, ..], Err(e) = [ok |-> FALSE, ..] *)
(*   String         a sequence of one-character strings                    *)
(*   PathBuf        the sequence of its components                         *)
(*   IpAddr         [v |-> 4, a |-> four octets] or                        *)
(*                  [v |-> 6, a |-> eight segments]                        *)
(*   HashMap        a function from its keys                               *)
(*   JSON value     [t |-> "num", n |-> ..] or [t |-> "str", s |-> ..] or  *)
(*                  [t |-> "obj", m |-> ..]                                *)
(***************************************************************************)
EXTENDS Integers, Sequences, FiniteSets, TLC

VARIABLES
    pc,          \* position in the pipeline that is running
    docs,        \* the JSON documents handed to from_reader, lowest precedence first
    builders,    \* the ConfigBuilder parsed from each document (Result)
    merged,      \* the ConfigBuilder merged so far
    nmerged,     \* how many sources merged holds
    fallbacks,   \* the ConfigBuilderFallbacks handed to build
    result,      \* what build, or the constructor of Config, returned
    opts,        \* the Opts parsed from the command line and the environment
    file,        \* the configuration file at the path that is consulted
    env,         \* what the operating system answers to the lookups
    call,        \* the constructor of Config that was called, with its arguments
    cli_builder,         \* ConfigBuilder::from_opts(opts)
    config_file_builder  \* ConfigBuilder::from_config_file(path)

harnessVars == <<docs, builders, nmerged>>
entryVars == <<opts, file, env, call, cli_builder, config_file_builder>>
vars == <<pc, docs, builders, merged, nmerged, fallbacks, result, opts, file,
          env, call, cli_builder, config_file_builder>>

----------------------------------------------------------------------------
(* Bounds of the model *)

\* How many values the environment supplies in all (JSON keys set, documents
\* damaged) before a pipeline runs.
MaxPresent == 3

----------------------------------------------------------------------------
(* Program constants *)

DEFAULT_PORT == 3000
DEFAULT_MAX_PODS == 110
U16_MAX == 65535
U8_MAX == 255

----------------------------------------------------------------------------
(* Option and Result *)

None == [some |-> FALSE]
Some(v) == [some |-> TRUE, val |-> v]
Ok(v) == [ok |-> TRUE, v |-> v]
Err(e) == [ok |-> FALSE, e |-> e]

\* Option::or: self if it is Some, otherwise optb.
OptionOr(self, optb) == IF self.some THEN self ELSE optb

\* Option::xor: Some only if exactly one of the two is Some.
OptionXor(self, optb) ==
    IF self.some /\ ~optb.some THEN self
    ELSE IF ~self.some /\ optb.some THEN optb
    ELSE None

----------------------------------------------------------------------------
(* The sources: JSON documents *)

Sources == 1..3
Digits == <<"1", "2", "3", "4", "5">>

JsonKeys == {"nodeIP", "hostname", "nodeName", "dataDir", "nodeLabels",
             "maxPods", "listenerAddress", "listenerPort",
             "tlsCertificateFile", "tlsPrivateKeyFile"}

Num(n) == [t |-> "num", n |-> n]
Str(s) == [t |-> "str", s |-> s]
Obj(m) == [t |-> "obj", m |-> m]

\* The text of an IP address is kept as the numbers between its separators.
\* The values a document of source i may give to a key: for the keys whose
\* parse can fail, one well-formed and one ill-formed value.
RawChoices(i, k) ==
    CASE k = "nodeIP" -> {Str(<<173, 183, 193, i>>), Str(<<173, 183, 999, i>>)}
      [] k = "listenerAddress" ->
            {Str(<<172, 182, 192, i>>), Str(<<172, 182, 256, i>>)}
      [] k = "listenerPort" -> {Num(1230 + i), Num(8675300 + i)}
      [] k = "maxPods" -> {Num(20 + i), Str([j \in 1..i |-> "q"])}
      [] k = "hostname" -> {Str(<<"K", "h", Digits[i]>>)}
      [] k = "nodeName" -> {Str(<<"N", "n", Digits[i]>>)}
      [] k = "dataDir" -> {Str(<<"krusty", "data", Digits[i]>>)}
      [] k = "nodeLabels" ->
            {Obj((<<"l", Digits[i]>> :> <<"v", Digits[i]>>))}
      [] k = "tlsCertificateFile" -> {Str(<<"my", "cert", Digits[i]>>)}
      [] k = "tlsPrivateKeyFile" -> {Str(<<"the", "key", Digits[i]>>)}

EmptyObject == [k \in JsonKeys |-> None]
\* A document: the text's syntax and, when it is well formed, its object.
EmptyDoc == [syntax |-> "ok", obj |-> EmptyObject]

PresentIn(doc) ==
    Cardinality({k \in JsonKeys : doc.obj[k].some})
        + (IF doc.syntax = "ok" THEN 0 ELSE 1)

RECURSIVE SumOver(_, _)
SumOver(f, S) ==
    IF S = {} THEN 0
    ELSE LET x == CHOOSE y \in S : TRUE IN f[x] + SumOver(f, S \ {x})

PresentCount == SumOver([i \in Sources |-> PresentIn(docs[i])], Sources)

----------------------------------------------------------------------------
(* Deserialization *)

\* str::parse::<IpAddr>, on the numbers of the text.
ParseIpAddr(s) ==
    IF Len(s) = 4 /\ \A j \in 1..4 : s[j] \in 0..U8_MAX
    THEN Ok([v |-> 4, a |-> s])
    ELSE IF Len(s) = 8 /\ \A j \in 1..8 : s[j] \in 0..U16_MAX
    THEN Ok([v |-> 6, a |-> s])
    ELSE Err([msg |-> "invalid IP address syntax", input |-> Str(s)])

\* The outcome of a field deserializer: [fatal |-> TRUE] is D::Error, which
\* fails the whole document; otherwise the field's value.
Fatal == [fatal |-> TRUE]
Field(v) == [fatal |-> FALSE, val |-> v]

try_deserialize_ip_addr(raw) ==
    IF raw.t # "str" THEN Fatal
    ELSE Field(Some(ParseIpAddr(raw.s)))

try_deserialize_u16(raw) ==
    IF raw.t = "num" /\ raw.n \in 0..U16_MAX THEN Field(Some(Ok(raw.n)))
    ELSE IF raw.t = "num"
    THEN Field(Some(Err([msg |-> "invalid value: integer, expected u16",
                         input |-> raw])))
    ELSE Field(Some(Err([msg |-> "invalid type: expected u16",
                         input |-> raw])))

\* Option<String> and Option<PathBuf>: serde's own deserializer.
deserialize_string(raw) ==
    IF raw.t # "str" THEN Fatal ELSE Field(Some(raw.s))

deserialize_map(raw) ==
    IF raw.t # "obj" THEN Fatal ELSE Field(Some(raw.m))

\* #[serde(default)]: a key that is missing leaves the field None.
Deserialize(opt, with) ==
    IF ~opt.some THEN Field(None)
    ELSE CASE with = "try_deserialize_ip_addr" ->
                  try_deserialize_ip_addr(opt.val)
           [] with = "try_deserialize_u16" -> try_deserialize_u16(opt.val)
           [] with = "string" -> deserialize_string(opt.val)
           [] with = "map" -> deserialize_map(opt.val)

\* ConfigBuilder::default()
ConfigBuilderDefault ==
    [node_ip |-> None, hostname |-> None, node_name |-> None,
     data_dir |-> None, node_labels |-> None, max_pods |-> None,
     server_addr |-> None, server_port |-> None,
     server_tls_cert_file |-> None, server_tls_private_key_file |-> None]

BuilderFields == DOMAIN ConfigBuilderDefault

\* The derived Deserialize of ConfigBuilder: each field from its renamed key.
DeserializeBuilder(obj) ==
    LET f == [node_ip |-> Deserialize(obj["nodeIP"], "try_deserialize_ip_addr"),
              hostname |-> Deserialize(obj["hostname"], "string"),
              node_name |-> Deserialize(obj["nodeName"], "string"),
              data_dir |-> Deserialize(obj["dataDir"], "string"),
              node_labels |-> Deserialize(obj["nodeLabels"], "map"),
              max_pods |-> Deserialize(obj["maxPods"], "try_deserialize_u16"),
              server_addr |->
                  Deserialize(obj["listenerAddress"], "try_deserialize_ip_addr"),
              server_port |->
                  Deserialize(obj["listenerPort"], "try_deserialize_u16"),
              server_tls_cert_file |->
                  Deserialize(obj["tlsCertificateFile"], "string"),
              server_tls_private_key_file |->
                  Deserialize(obj["tlsPrivateKeyFile"], "string")]
    IN IF \E n \in BuilderFields : f[n].fatal
       THEN Err([msg |-> "invalid type", input |-> Str(<<>>)])
       ELSE Ok([n \in BuilderFields |-> f[n].val])

\* ConfigBuilder::from_reader: serde_json::from_reader, its error passed on.
from_reader(doc) ==
    IF doc.syntax # "ok"
    THEN Err([msg |-> doc.syntax, input |-> Str(<<>>)])
    ELSE DeserializeBuilder(doc.obj)

----------------------------------------------------------------------------
(* Merge *)

\* A merge in which a field of the base survives an override.
with_override_base_wins(self, other) ==
    [n \in BuilderFields |->
        IF n = "server_port" THEN OptionOr(self[n], other[n])
        ELSE OptionOr(other[n], self[n])]

\* A merge that writes xor for or.
with_override_xor(self, other) ==
    [n \in BuilderFields |->
        IF n = "max_pods" THEN OptionXor(other[n], self[n])
        ELSE OptionOr(other[n], self[n])]

\* A merge that lets only a valid override replace the base.
with_override_valid_only(self, other) ==
    [n \in BuilderFields |->
        IF n = "node_ip" /\ other[n].some /\ ~other[n].val.ok
        THEN OptionOr(self[n], other[n])
        ELSE OptionOr(other[n], self[n])]

\* ConfigBuilder::with_override
with_override(self, other) ==
    [node_ip |-> OptionOr(other.node_ip, self.node_ip),
     node_name |-> OptionOr(other.node_name, self.node_name),
     node_labels |-> OptionOr(other.node_labels, self.node_labels),
     hostname |-> OptionOr(other.hostname, self.hostname),
     data_dir |-> OptionOr(other.data_dir, self.data_dir),
     max_pods |-> OptionOr(other.max_pods, self.max_pods),
     server_addr |-> OptionOr(other.server_addr, self.server_addr),
     server_port |-> OptionOr(other.server_port, self.server_port),
     server_tls_cert_file |->
         OptionOr(other.server_tls_cert_file, self.server_tls_cert_file),
     server_tls_private_key_file |->
         OptionOr(other.server_tls_private_key_file,
                  self.server_tls_private_key_file)]

----------------------------------------------------------------------------
(* Strings, paths and addresses *)

\* char::to_lowercase on the letters of ASCII; every other character is kept.
LowerChar(c) ==
    CASE c = "A" -> "a" [] c = "B" -> "b" [] c = "C" -> "c" [] c = "D" -> "d"
      [] c = "E" -> "e" [] c = "F" -> "f" [] c = "G" -> "g" [] c = "H" -> "h"
      [] c = "I" -> "i" [] c = "J" -> "j" [] c = "K" -> "k" [] c = "L" -> "l"
      [] c = "M" -> "m" [] c = "N" -> "n" [] c = "O" -> "o" [] c = "P" -> "p"
      [] c = "Q" -> "q" [] c = "R" -> "r" [] c = "S" -> "s" [] c = "T" -> "t"
      [] c = "U" -> "u" [] c = "V" -> "v" [] c = "W" -> "w" [] c = "X" -> "x"
      [] c = "Y" -> "y" [] c = "Z" -> "z" [] OTHER -> c

\* A sanitizer that leaves the hostname as it is.
sanitize_hostname_identity(hostname) == hostname

\* sanitize_hostname: str::to_lowercase
sanitize_hostname(hostname) ==
    [j \in 1..Len(hostname) |-> LowerChar(hostname[j])]

\* A certificate path that was copied from the key path.
default_cert_path_copied(data_dir) == data_dir \o <<"config", "krustlet.key">>

\* PathBuf::join with a relative path: its components are appended.
default_key_path(data_dir) == data_dir \o <<"config", "krustlet.key">>
default_cert_path(data_dir) == data_dir \o <<"config", "krustlet.crt">>

V4(a, b, c, d) == [v |-> 4, a |-> <<a, b, c, d>>]
V6(segs) == [v |-> 6, a |-> segs]
\* IpAddr::V4(Ipv4Addr::new(0, 0, 0, 0))
empty_ip_addr == V4(0, 0, 0, 0)
\* "::".parse()
empty_ip_addr_v6 == V6(<<0, 0, 0, 0, 0, 0, 0, 0>>)

is_ipv4(ip) == ip.v = 4
is_ipv6(ip) == ip.v = 6
is_loopback(ip) ==
    IF ip.v = 4 THEN ip.a[1] = 127 ELSE ip.a = <<0, 0, 0, 0, 0, 0, 0, 1>>
is_multicast(ip) ==
    IF ip.v = 4 THEN ip.a[1] \in 224..239 ELSE ip.a[1] \div 256 = 255
is_unspecified(ip) == \A j \in DOMAIN ip.a : ip.a[j] = 0

\* is_same_ip_family
is_same_ip_family(first, second) ==
    IF first.v = 4 THEN is_ipv4(second) ELSE is_ipv6(second)

----------------------------------------------------------------------------
(* The environment of the process and the fallbacks *)

\* What the operating system answers: the host's name, the home directory and
\* the addresses the resolver knows for each name.
\* The resolver of GoodEnv knows the host's own name and the names the
\* documents and the command line use.
GoodHosts ==
    (<<"H", "o", "s", "t">> :>
        <<V4(127, 0, 0, 1), V6(<<0, 0, 0, 0, 0, 0, 0, 1>>), V4(10, 0, 0, 7),
          V6(<<8193, 3512, 0, 0, 0, 0, 0, 7>>)>>)
    @@ [h \in {<<"K", "h", Digits[i]>> : i \in 1..4} |->
            <<V4(0, 0, 0, 0), V4(224, 0, 0, 1),
              V6(<<8193, 3512, 0, 0, 0, 0, 0, 9>>), V4(10, 0, 0, 9)>>]

\* The table of the resolver: it answers, it knows no name, it knows only
\* the loopback address of every name, or it knows for every name a multicast
\* and the unspecified address of IPv6 and two addresses of IPv4.
HostsOf(e) ==
    CASE e.resolver = "good" -> GoodHosts
      [] e.resolver = "down" -> <<>>
      [] e.resolver = "loopback" ->
            [h \in DOMAIN GoodHosts |-> <<V4(127, 0, 0, 1)>>]
      [] e.resolver = "multi" ->
            [h \in DOMAIN GoodHosts |->
                <<V6(<<65282, 0, 0, 0, 0, 0, 0, 1>>),
                  V6(<<0, 0, 0, 0, 0, 0, 0, 0>>),
                  V4(10, 0, 0, 5), V4(10, 0, 0, 6)>>]

GoodEnv ==
    [hostname |-> Ok(<<"H", "o", "s", "t">>),
     home_dir |-> Some(<<"home", "user">>),
     resolver |-> "good"]

\* default_hostname
default_hostname(e) ==
    IF e.hostname.ok THEN Ok(e.hostname.v)
    ELSE Err([msg |-> "hostname lookup failed", input |-> Str(<<>>)])

\* default_data_dir
default_data_dir(e) ==
    IF e.home_dir.some THEN Ok(e.home_dir.val \o <<".krustlet">>)
    ELSE Err([msg |-> "Unable to get home directory", input |-> Str(<<>>)])

\* str::to_socket_addrs on "<host>:<port>": the addresses of the host.
to_socket_addrs(name, e) ==
    LET n == Len(name)
        host == IF n >= 3 THEN SubSeq(name, 1, n - 3) ELSE <<>>
    IN IF n >= 3 /\ SubSeq(name, n - 2, n) = <<":", "8", "0">>
          /\ host \in DOMAIN HostsOf(e)
       THEN Ok(HostsOf(e)[host])
       ELSE Err([msg |-> "failed to lookup address information",
                 input |-> Str(name)])

\* A search that does not look at the family of the address.
FirstAccepted_any_family(addrs, preferred_ip_family) ==
    LET good == {j \in 1..Len(addrs) :
                    /\ ~is_loopback(addrs[j])
                    /\ ~is_multicast(addrs[j])
                    /\ ~is_unspecified(addrs[j])}
    IN IF good = {} THEN 0 ELSE CHOOSE j \in good : \A l \in good : j <= l

\* The position of the first address that default_node_ip accepts, or 0.
FirstAccepted(addrs, preferred_ip_family) ==
    LET good == {j \in 1..Len(addrs) :
                    /\ ~is_loopback(addrs[j])
                    /\ ~is_multicast(addrs[j])
                    /\ ~is_unspecified(addrs[j])
                    /\ is_same_ip_family(addrs[j], preferred_ip_family)}
    IN IF good = {} THEN 0 ELSE CHOOSE j \in good : \A l \in good : j <= l

\* What default_node_ip leaves in the String it is given:
\* hostname.push_str(":80")
default_node_ip_pushed(hostname) == hostname \o <<":", "8", "0">>

\* default_node_ip
default_node_ip(hostname, preferred_ip_family, e) ==
    LET name == default_node_ip_pushed(hostname)
        addrs == to_socket_addrs(name, e)
    IN IF ~addrs.ok THEN addrs
       ELSE IF FirstAccepted(addrs.v, preferred_ip_family) = 0
       THEN Err([msg |-> "unable to find default IP address for node. Please specify a node IP manually",
                 input |-> Str(name)])
       ELSE Ok(addrs.v[FirstAccepted(addrs.v, preferred_ip_family)])

\* What a call of a fallback does: it returns a value or it panics.
Returns(v) == [panic |-> FALSE, v |-> v]
Panics(msg) == [panic |-> TRUE, msg |-> msg]
\* Result::expect
Expect(r, msg) == IF r.ok THEN Returns(r.v) ELSE Panics(msg)

\* test::fallbacks()
TestFallbacks == [kind |-> "test"]
\* The fallbacks of Config::new_from_builder, closed over the environment.
ProdFallbacks(e) == [kind |-> "prod", env |-> e]

\* A fallback that yields the empty name when the lookup fails.
fallbacks_hostname_or_default(fb) ==
    IF fb.kind = "test"
    THEN Returns(<<"f", "a", "l", "l", "b", "a", "c", "k">>)
    ELSE IF default_hostname(fb.env).ok
    THEN Returns(default_hostname(fb.env).v)
    ELSE Returns(<<>>)

fallbacks_hostname(fb) ==
    IF fb.kind = "test"
    THEN Returns(<<"f", "a", "l", "l", "b", "a", "c", "k">>)
    ELSE Expect(default_hostname(fb.env), "unable to get default hostname")

fallbacks_data_dir(fb) ==
    IF fb.kind = "test" THEN Returns(<<"fallback", "data", "dir">>)
    ELSE Expect(default_data_dir(fb.env),
                "unable to get default data directory")

fallbacks_cert_path(fb, data_dir) ==
    IF fb.kind = "test" THEN Returns(<<"fallback", "cert", "path">>)
    ELSE Returns(default_cert_path(data_dir))

fallbacks_key_path(fb, data_dir) ==
    IF fb.kind = "test" THEN Returns(<<"fallback", "key", "path">>)
    ELSE Returns(default_key_path(data_dir))

fallbacks_node_ip(fb, hostname, preferred_ip_family) ==
    IF fb.kind = "test" THEN Returns(V4(4, 4, 4, 4))
    ELSE Expect(default_node_ip(hostname, preferred_ip_family, fb.env),
                "unable to get default node IP")

\* What the node-IP fallback leaves in the String it is given: the fallback
\* of the tests ignores it.
fallbacks_node_ip_pushed(fb, hostname) ==
    IF fb.kind = "test" THEN hostname ELSE default_node_ip_pushed(hostname)

\* A call that is handed hostname itself: what the callee wrote stays.
CloneDropped_aliased(hostname, written) == written

\* &mut hostname.clone(): the callee writes to the clone, which is dropped
\* after the call; hostname keeps its value.
CloneDropped(hostname, written) == hostname

----------------------------------------------------------------------------
(* Resolution *)

\* An error that names the key of the document instead of the field.
invalid_config_value_error_raw_key(e, value_name) ==
    [text |-> <<"invalid ",
                CASE value_name = "server address" -> "listenerAddress"
                  [] value_name = "server port" -> "listenerPort"
                  [] value_name = "node IP" -> "nodeIP"
                  [] OTHER -> "maxPods",
                " in configuration file: ", e.msg>>,
     source |-> e]

\* invalid_config_value_error: the context is what the error displays, the
\* original error stays its source.
invalid_config_value_error(e, value_name) ==
    [text |-> <<"invalid ", value_name, " in configuration file: ", e.msg>>,
     source |-> e]

\* Option<Result<T>>::unwrap_or(Ok(default)).map_err(invalid_config_value_error)
UnwrapOrMapErr(opt, default, value_name) ==
    IF ~opt.some THEN Ok(default)
    ELSE IF opt.val.ok THEN opt.val
    ELSE Err(invalid_config_value_error(opt.val.e, value_name))

Call(fn, args) == [fn |-> fn, args |-> args]

BuildPanic(msg, calls) == [status |-> "panic", msg |-> msg, calls |-> calls]
BuildErr(e, calls) == [status |-> "err", error |-> e, calls |-> calls]
BuildOk(config, calls) == [status |-> "ok", config |-> config, calls |-> calls]

\* A build that hands the node-IP fallback the default bind address.
build_default_addr(self, fb) ==
    LET \* hostname
        r1 == IF self.hostname.some THEN Returns(self.hostname.val)
              ELSE fallbacks_hostname(fb)
        c1 == IF self.hostname.some THEN <<>>
              ELSE <<Call("hostname", <<>>)>>
    IN IF r1.panic THEN BuildPanic(r1.msg, c1) ELSE
    LET hostname == r1.v
        \* data_dir
        r2 == IF self.data_dir.some THEN Returns(self.data_dir.val)
              ELSE fallbacks_data_dir(fb)
        c2 == IF self.data_dir.some THEN c1
              ELSE Append(c1, Call("data_dir", <<>>))
    IN IF r2.panic THEN BuildPanic(r2.msg, c2) ELSE
    LET data_dir == r2.v
        \* server_addr
        r3 == UnwrapOrMapErr(self.server_addr, empty_ip_addr, "server address")
    IN IF ~r3.ok THEN BuildErr(r3.e, c2) ELSE
    LET server_addr == r3.v
        \* server_tls_cert_file
        r4 == IF self.server_tls_cert_file.some
              THEN Returns(self.server_tls_cert_file.val)
              ELSE fallbacks_cert_path(fb, data_dir)
        c4 == IF self.server_tls_cert_file.some THEN c2
              ELSE Append(c2, Call("cert_path", <<data_dir>>))
    IN IF r4.panic THEN BuildPanic(r4.msg, c4) ELSE
    LET server_tls_cert_file == r4.v
        \* server_tls_private_key_file
        r5 == IF self.server_tls_private_key_file.some
              THEN Returns(self.server_tls_private_key_file.val)
              ELSE fallbacks_key_path(fb, data_dir)
        c5 == IF self.server_tls_private_key_file.some THEN c4
              ELSE Append(c4, Call("key_path", <<data_dir>>))
    IN IF r5.panic THEN BuildPanic(r5.msg, c5) ELSE
    LET server_tls_private_key_file == r5.v
        \* server_port
        r6 == UnwrapOrMapErr(self.server_port, DEFAULT_PORT, "server port")
    IN IF ~r6.ok THEN BuildErr(r6.e, c5) ELSE
    LET server_port == r6.v
        \* node_ip: the fallback is given a clone of hostname
        c7 == IF self.node_ip.some THEN c5
              ELSE Append(c5, Call("node_ip", <<hostname, empty_ip_addr>>))
        f7 == IF self.node_ip.some THEN Returns(self.node_ip.val)
              ELSE fallbacks_node_ip(fb, hostname, empty_ip_addr)
    IN IF f7.panic THEN BuildPanic(f7.msg, c7) ELSE
    LET r7 == IF self.node_ip.some
              THEN UnwrapOrMapErr(self.node_ip, empty_ip_addr, "node IP")
              ELSE Ok(f7.v)
    IN IF ~r7.ok THEN BuildErr(r7.e, c7) ELSE
    LET node_ip == r7.v
        hostname_after == IF self.node_ip.some THEN hostname
                          ELSE CloneDropped(hostname,
                                   fallbacks_node_ip_pushed(fb, hostname))
        \* node_name
        node_name == IF self.node_name.some THEN self.node_name.val
                     ELSE sanitize_hostname(hostname_after)
        \* max_pods
        r9 == UnwrapOrMapErr(self.max_pods, DEFAULT_MAX_PODS, "maximum pods")
    IN IF ~r9.ok THEN BuildErr(r9.e, c7) ELSE
    LET max_pods == r9.v
    IN BuildOk([node_ip |-> node_ip,
                node_name |-> node_name,
                node_labels |-> IF self.node_labels.some
                                THEN self.node_labels.val ELSE <<>>,
                hostname |-> hostname_after,
                data_dir |-> data_dir,
                max_pods |-> max_pods,
                server_config |->
                    [tls_cert_file |-> server_tls_cert_file,
                     tls_private_key_file |-> server_tls_private_key_file,
                     addr |-> server_addr,
                     port |-> server_port]],
               c7)

\* A build that resolves node_ip before server_port.
build_node_ip_before_port(self, fb) ==
    LET \* hostname
        r1 == IF self.hostname.some THEN Returns(self.hostname.val)
              ELSE fallbacks_hostname(fb)
        c1 == IF self.hostname.some THEN <<>>
              ELSE <<Call("hostname", <<>>)>>
    IN IF r1.panic THEN BuildPanic(r1.msg, c1) ELSE
    LET hostname == r1.v
        \* data_dir
        r2 == IF self.data_dir.some THEN Returns(self.data_dir.val)
              ELSE fallbacks_data_dir(fb)
        c2 == IF self.data_dir.some THEN c1
              ELSE Append(c1, Call("data_dir", <<>>))
    IN IF r2.panic THEN BuildPanic(r2.msg, c2) ELSE
    LET data_dir == r2.v
        \* server_addr
        r3 == UnwrapOrMapErr(self.server_addr, empty_ip_addr, "server address")
    IN IF ~r3.ok THEN BuildErr(r3.e, c2) ELSE
    LET server_addr == r3.v
        \* server_tls_cert_file
        r4 == IF self.server_tls_cert_file.some
              THEN Returns(self.server_tls_cert_file.val)
              ELSE fallbacks_cert_path(fb, data_dir)
        c4 == IF self.server_tls_cert_file.some THEN c2
              ELSE Append(c2, Call("cert_path", <<data_dir>>))
    IN IF r4.panic THEN BuildPanic(r4.msg, c4) ELSE
    LET server_tls_cert_file == r4.v
        \* server_tls_private_key_file
        r5 == IF self.server_tls_private_key_file.some
              THEN Returns(self.server_tls_private_key_file.val)
              ELSE fallbacks_key_path(fb, data_dir)
        c5 == IF self.server_tls_private_key_file.some THEN c4
              ELSE Append(c4, Call("key_path", <<data_dir>>))
    IN IF r5.panic THEN BuildPanic(r5.msg, c5) ELSE
    LET server_tls_private_key_file == r5.v
        \* node_ip: the fallback is given a clone of hostname
        c7 == IF self.node_ip.some THEN c5
              ELSE Append(c5, Call("node_ip", <<hostname, server_addr>>))
        f7 == IF self.node_ip.some THEN Returns(self.node_ip.val)
              ELSE fallbacks_node_ip(fb, hostname, server_addr)
    IN IF f7.panic THEN BuildPanic(f7.msg, c7) ELSE
    LET r7 == IF self.node_ip.some
              THEN UnwrapOrMapErr(self.node_ip, empty_ip_addr, "node IP")
              ELSE Ok(f7.v)
    IN IF ~r7.ok THEN BuildErr(r7.e, c7) ELSE
    LET node_ip == r7.v
        hostname_after == IF self.node_ip.some THEN hostname
                          ELSE CloneDropped(hostname,
                                   fallbacks_node_ip_pushed(fb, hostname))
        \* server_port
        r6 == UnwrapOrMapErr(self.server_port, DEFAULT_PORT, "server port")
    IN IF ~r6.ok THEN BuildErr(r6.e, c7) ELSE
    LET server_port == r6.v
        \* node_name
        node_name == IF self.node_name.some THEN self.node_name.val
                     ELSE sanitize_hostname(hostname_after)
        \* max_pods
        r9 == UnwrapOrMapErr(self.max_pods, DEFAULT_MAX_PODS, "maximum pods")
    IN IF ~r9.ok THEN BuildErr(r9.e, c7) ELSE
    LET max_pods == r9.v
    IN BuildOk([node_ip |-> node_ip,
                node_name |-> node_name,
                node_labels |-> IF self.node_labels.some
                                THEN self.node_labels.val ELSE <<>>,
                hostname |-> hostname_after,
                data_dir |-> data_dir,
                max_pods |-> max_pods,
                server_config |->
                    [tls_cert_file |-> server_tls_cert_file,
                     tls_private_key_file |-> server_tls_private_key_file,
                     addr |-> server_addr,
                     port |-> server_port]],
               c7)

\* ConfigBuilder::build.  Every step is taken only if no earlier one has
\* returned an error or panicked; calls lists the fallbacks invoked, in order,
\* with their arguments.
build(self, fb) ==
    LET \* hostname
        r1 == IF self.hostname.some THEN Returns(self.hostname.val)
              ELSE fallbacks_hostname(fb)
        c1 == IF self.hostname.some THEN <<>>
              ELSE <<Call("hostname", <<>>)>>
    IN IF r1.panic THEN BuildPanic(r1.msg, c1) ELSE
    LET hostname == r1.v
        \* data_dir
        r2 == IF self.data_dir.some THEN Returns(self.data_dir.val)
              ELSE fallbacks_data_dir(fb)
        c2 == IF self.data_dir.some THEN c1
              ELSE Append(c1, Call("data_dir", <<>>))
    IN IF r2.panic THEN BuildPanic(r2.msg, c2) ELSE
    LET data_dir == r2.v
        \* server_addr
        r3 == UnwrapOrMapErr(self.server_addr, empty_ip_addr, "server address")
    IN IF ~r3.ok THEN BuildErr(r3.e, c2) ELSE
    LET server_addr == r3.v
        \* server_tls_cert_file
        r4 == IF self.server_tls_cert_file.some
              THEN Returns(self.server_tls_cert_file.val)
              ELSE fallbacks_cert_path(fb, data_dir)
        c4 == IF self.server_tls_cert_file.some THEN c2
              ELSE Append(c2, Call("cert_path", <<data_dir>>))
    IN IF r4.panic THEN BuildPanic(r4.msg, c4) ELSE
    LET server_tls_cert_file == r4.v
        \* server_tls_private_key_file
        r5 == IF self.server_tls_private_key_file.some
              THEN Returns(self.server_tls_private_key_file.val)
              ELSE fallbacks_key_path(fb, data_dir)
        c5 == IF self.server_tls_private_key_file.some THEN c4
              ELSE Append(c4, Call("key_path", <<data_dir>>))
    IN IF r5.panic THEN BuildPanic(r5.msg, c5) ELSE
    LET server_tls_private_key_file == r5.v
        \* server_port
        r6 == UnwrapOrMapErr(self.server_port, DEFAULT_PORT, "server port")
    IN IF ~r6.ok THEN BuildErr(r6.e, c5) ELSE
    LET server_port == r6.v
        \* node_ip: the fallback is given a clone of hostname
        c7 == IF self.node_ip.some THEN c5
              ELSE Append(c5, Call("node_ip", <<hostname, server_addr>>))
        f7 == IF self.node_ip.some THEN Returns(self.node_ip.val)
              ELSE fallbacks_node_ip(fb, hostname, server_addr)
    IN IF f7.panic THEN BuildPanic(f7.msg, c7) ELSE
    LET r7 == IF self.node_ip.some
              THEN UnwrapOrMapErr(self.node_ip, empty_ip_addr, "node IP")
              ELSE Ok(f7.v)
    IN IF ~r7.ok THEN BuildErr(r7.e, c7) ELSE
    LET node_ip == r7.v
        hostname_after == IF self.node_ip.some THEN hostname
                          ELSE CloneDropped(hostname,
                                   fallbacks_node_ip_pushed(fb, hostname))
        \* node_name
        node_name == IF self.node_name.some THEN self.node_name.val
                     ELSE sanitize_hostname(hostname_after)
        \* max_pods
        r9 == UnwrapOrMapErr(self.max_pods, DEFAULT_MAX_PODS, "maximum pods")
    IN IF ~r9.ok THEN BuildErr(r9.e, c7) ELSE
    LET max_pods == r9.v
    \* bootstrap_file: line 325 reads opts.bootstrap_file, and build has no
    \* opts: its arguments are self and fallbacks, ConfigBuilder has no field
    \* for the bootstrap file and from_opts drops the one of Opts.  The name
    \* is bound to nothing, so the Config of build holds no bootstrap_file.
    IN BuildOk([node_ip |-> node_ip,
                node_name |-> node_name,
                node_labels |-> IF self.node_labels.some
                                THEN self.node_labels.val ELSE <<>>,
                hostname |-> hostname_after,
                data_dir |-> data_dir,
                max_pods |-> max_pods,
                server_config |->
                    [tls_cert_file |-> server_tls_cert_file,
                     tls_private_key_file |-> server_tls_private_key_file,
                     addr |-> server_addr,
                     port |-> server_port]],
               c7)

----------------------------------------------------------------------------
(* The command line and the configuration file *)

BOOTSTRAP_FILE == <<"/", "etc", "kubernetes", "bootstrap-kubelet.conf">>

\* Opts when no flag and no environment variable is given.
NoOpts ==
    [addr |-> None, port |-> None, max_pods |-> None, tls_cert_file |-> None,
     tls_private_key_file |-> None, node_ip |-> None, node_labels |-> <<>>,
     hostname |-> None, node_name |-> None, data_dir |-> None,
     bootstrap_file |-> BOOTSTRAP_FILE]

OptNames == {"addr", "port", "max_pods", "tls_cert_file",
             "tls_private_key_file", "node_ip", "hostname", "node_name",
             "data_dir"}

\* The values the command line may give: the parser has checked them.
OptChoices(name) ==
    CASE name = "addr" ->
            {V4(172, 182, 192, 2), V6(<<8193, 3512, 0, 0, 0, 0, 0, 2>>)}
      [] name = "port" -> {1232}
      [] name = "max_pods" -> {22}
      [] name = "tls_cert_file" -> {<<"my", "cert", "2">>}
      [] name = "tls_private_key_file" -> {<<"the", "key", "2">>}
      [] name = "node_ip" -> {V4(173, 183, 193, 2)}
      [] name = "hostname" -> {<<"K", "h", "2">>}
      [] name = "node_name" -> {<<"N", "n", "2">>}
      [] name = "data_dir" -> {<<"krusty", "data", "2">>}

\* The tokens of --node-labels.
LabelTokens == {<<"a", "=", "b", "=", "c">>, <<"=", "b">>, <<"a">>,
                <<"c", "=", "d">>, <<>>}

\* No file at the path.
NoFile == [exists |-> FALSE, readable |-> TRUE, doc |-> EmptyDoc]

\* The position of the first '=' of a string, or 0.
FirstEq(str) ==
    LET at == {j \in 1..Len(str) : str[j] = "="}
    IN IF at = {} THEN 0 ELSE CHOOSE j \in at : \A l \in at : j <= l

\* A split at every '=' that keeps the first two pieces.
split_one_label_every_eq(in_string) ==
    LET at == FirstEq(in_string)
        key == IF at = 0 THEN in_string ELSE SubSeq(in_string, 1, at - 1)
        rest == IF at = 0 THEN <<>>
                ELSE SubSeq(in_string, at + 1, Len(in_string))
        next == FirstEq(rest)
    IN IF key = <<>> THEN None
       ELSE IF next = 0 THEN Some(<<key, rest>>)
       ELSE Some(<<key, SubSeq(rest, 1, next - 1)>>)

\* split_one_label: splitn(2, '=')
split_one_label(in_string) ==
    LET at == FirstEq(in_string)
        key == IF at = 0 THEN in_string ELSE SubSeq(in_string, 1, at - 1)
    IN IF key = <<>> THEN None
       ELSE IF at = 0 THEN Some(<<key, <<>>>>)
       ELSE Some(<<key, SubSeq(in_string, at + 1, Len(in_string))>>)

\* Iterator::filter_map(split_one_label).collect()
RECURSIVE FilterMapLabels(_)
FilterMapLabels(tokens) ==
    IF tokens = <<>> THEN <<>>
    ELSE LET one == split_one_label(Head(tokens))
         IN (IF one.some THEN <<one.val>> ELSE <<>>)
                \o FilterMapLabels(Tail(tokens))

\* HashMap::from_iter: a later pair replaces an earlier one with its key.
RECURSIVE HashMapFromIter(_)
HashMapFromIter(pairs) ==
    IF pairs = <<>> THEN <<>>
    ELSE LET n == Len(pairs)
         IN (pairs[n][1] :> pairs[n][2])
                @@ HashMapFromIter(SubSeq(pairs, 1, n - 1))

\* ok_result_of
ok_result_of(value) == IF value.some THEN Some(Ok(value.val)) ELSE None

\* ConfigBuilder::from_opts
from_opts(o) ==
    LET node_labels == FilterMapLabels(o.node_labels)
    IN [node_ip |-> ok_result_of(o.node_ip),
        node_name |-> o.node_name,
        node_labels |-> IF node_labels = <<>> THEN None
                        ELSE Some(HashMapFromIter(node_labels)),
        hostname |-> o.hostname,
        data_dir |-> o.data_dir,
        max_pods |-> ok_result_of(o.max_pods),
        server_addr |-> ok_result_of(o.addr),
        server_port |-> ok_result_of(o.port),
        server_tls_cert_file |-> o.tls_cert_file,
        server_tls_private_key_file |-> o.tls_private_key_file]

\* A loader for which a file that does not exist is an error.
from_config_file_missing_is_error(f) ==
    IF ~f.exists
    THEN Err([msg |-> "No such file or directory", input |-> Str(<<>>)])
    ELSE IF ~f.readable
    THEN Err([msg |-> "Permission denied", input |-> Str(<<>>)])
    ELSE from_reader(f.doc)

\* ConfigBuilder::from_config_file
from_config_file(f) ==
    IF ~f.exists THEN Ok(ConfigBuilderDefault)
    ELSE IF ~f.readable
    THEN Err([msg |-> "Permission denied", input |-> Str(<<>>)])
    ELSE from_reader(f.doc)

\* What a constructor leaves: its locals and what it returned.
Ran(cli, from_file, builder, fb, res) ==
    [cli_builder |-> cli, config_file_builder |-> from_file,
     builder |-> builder, fallbacks |-> fb, result |-> res]

\* Result::unwrap on an Err, Option::unwrap on None: the process panics.
UnwrapPanic(e) ==
    [status |-> "panic",
     msg |-> "called Result::unwrap on an Err value", error |-> e]
UnwrapNonePanic ==
    [status |-> "panic", msg |-> "called Option::unwrap on a None value"]

\* Config::new_from_builder
new_from_builder(builder, e) ==
    LET res == build(builder, ProdFallbacks(e))
    IN IF res.status = "err" THEN UnwrapPanic(res.error) ELSE res

\* Config::new_from_file
new_from_file(f, e) ==
    LET from_file == from_config_file(f)
    IN IF ~from_file.ok
       THEN Ran(None, Some(from_file), ConfigBuilderDefault, None,
                UnwrapPanic(from_file.e))
       ELSE Ran(None, Some(from_file), from_file.v, Some(ProdFallbacks(e)),
                new_from_builder(from_file.v, e))

\* Config::new_from_flags
new_from_flags(o, e) ==
    Ran(Some(from_opts(o)), None, from_opts(o), Some(ProdFallbacks(e)),
        new_from_builder(from_opts(o), e))

\* A pipeline in which the file overrides the command line.
new_from_file_and_flags_impl_file_wins(o, f, e) ==
    LET cli == from_opts(o)
        from_file == from_config_file(f)
    IN IF ~from_file.ok
       THEN Ran(Some(cli), Some(from_file), cli, None,
                UnwrapPanic(from_file.e))
       ELSE Ran(Some(cli), Some(from_file),
                with_override(cli, from_file.v), Some(ProdFallbacks(e)),
                new_from_builder(with_override(cli, from_file.v), e))

\* A pipeline that goes on without the file when it cannot be loaded.
new_from_file_and_flags_impl_lenient(o, f, e) ==
    LET cli == from_opts(o)
        from_file == from_config_file(f)
        base == IF from_file.ok THEN from_file.v ELSE ConfigBuilderDefault
    IN Ran(Some(cli), Some(from_file), with_override(base, cli),
           Some(ProdFallbacks(e)),
           new_from_builder(with_override(base, cli), e))

\* Config::new_from_file_and_flags_impl
new_from_file_and_flags_impl(o, f, e) ==
    LET cli == from_opts(o)
        from_file == from_config_file(f)
    IN IF ~from_file.ok
       THEN Ran(Some(cli), Some(from_file), cli, None,
                UnwrapPanic(from_file.e))
       ELSE Ran(Some(cli), Some(from_file),
                with_override(from_file.v, cli), Some(ProdFallbacks(e)),
                new_from_builder(with_override(from_file.v, cli), e))

\* Config::new_from_file_and_flags; f is the file at config_file_path, or at
\* default_config_file_path() when no path is given.
new_from_file_and_flags(o, config_file_path, f, e) ==
    IF ~config_file_path.some
    THEN IF ~e.home_dir.some
         THEN Ran(None, None, ConfigBuilderDefault, None, UnwrapNonePanic)
         ELSE IF f.exists THEN new_from_file_and_flags_impl(o, f, e)
         ELSE new_from_flags(o, e)
    ELSE new_from_file_and_flags_impl(o, f, e)

\* Config::default_config
default_config(preferred_ip_family, e) ==
    LET hostname == default_hostname(e)
        data_dir == default_data_dir(e)
    IN IF ~hostname.ok THEN [status |-> "err", error |-> hostname.e]
       ELSE IF ~data_dir.ok THEN [status |-> "err", error |-> data_dir.e]
       ELSE LET node_ip ==
                    default_node_ip(hostname.v, preferred_ip_family, e)
                hostname_after ==
                    CloneDropped(hostname.v, default_node_ip_pushed(hostname.v))
            IN IF ~node_ip.ok THEN [status |-> "err", error |-> node_ip.e]
               ELSE [status |-> "ok",
                     config |->
                       [node_ip |-> node_ip.v,
                        node_name |-> sanitize_hostname(hostname_after),
                        node_labels |-> <<>>,
                        hostname |-> hostname_after,
                        data_dir |-> data_dir.v,
                        max_pods |-> DEFAULT_MAX_PODS,
                        bootstrap_file |-> BOOTSTRAP_FILE,
                        server_config |->
                          [addr |-> IF preferred_ip_family.v = 4
                                    THEN empty_ip_addr ELSE empty_ip_addr_v6,
                           port |-> DEFAULT_PORT,
                           tls_cert_file |-> default_cert_path(data_dir.v),
                           tls_private_key_file |->
                               default_key_path(data_dir.v)]]]

----------------------------------------------------------------------------
(* The pipeline of the tests: documents are read, merged in increasing       *)
(* precedence and built.                                                    *)

NoResult == [status |-> "none"]

Init ==
    /\ pc = "input"
    /\ docs = [i \in Sources |-> EmptyDoc]
    /\ builders = [i \in Sources |-> None]
    /\ merged = ConfigBuilderDefault
    /\ nmerged = 0
    /\ fallbacks = None
    /\ result = NoResult
    /\ opts = NoOpts
    /\ file = NoFile
    /\ env = GoodEnv
    /\ call = None
    /\ cli_builder = None
    /\ config_file_builder = None

\* The operator writes a key into one of the documents.
SetKey ==
    /\ pc = "input"
    /\ PresentCount < MaxPresent
    /\ \E i \in Sources, k \in JsonKeys :
          /\ ~docs[i].obj[k].some
          /\ \E raw \in RawChoices(i, k) :
                docs' = [docs EXCEPT ![i].obj[k] = Some(raw)]
    /\ UNCHANGED <<pc, builders, merged, nmerged, fallbacks, result>>
    /\ UNCHANGED entryVars

\* A document is left with a trailing comma.
Damage ==
    /\ pc = "input"
    /\ PresentCount < MaxPresent
    /\ \E i \in Sources :
          /\ docs[i].syntax = "ok"
          /\ docs' = [docs EXCEPT ![i].syntax = "trailing comma"]
    /\ UNCHANGED <<pc, builders, merged, nmerged, fallbacks, result>>
    /\ UNCHANGED entryVars

\* builder_from_json_string on every document, then unwrap: a document that
\* does not parse ends the run.
ReadAll ==
    /\ pc = "input"
    /\ builders' = [i \in Sources |-> Some(from_reader(docs[i]))]
    /\ IF \A i \in Sources : from_reader(docs[i]).ok
       THEN /\ pc' = "merge"
            /\ merged' = from_reader(docs[1]).v
            /\ nmerged' = 1
            /\ result' = result
       ELSE /\ pc' = "done"
            /\ result' = [status |-> "panic", msg |-> "unwrap on Err"]
            /\ UNCHANGED <<merged, nmerged>>
    /\ UNCHANGED <<docs, fallbacks>>
    /\ UNCHANGED entryVars

\* base.with_override(next source)
Override ==
    /\ pc = "merge"
    /\ nmerged < 3
    /\ merged' = with_override(merged, builders[nmerged + 1].val.v)
    /\ nmerged' = nmerged + 1
    /\ pc' = IF nmerged + 1 = 3 THEN "build" ELSE "merge"
    /\ UNCHANGED <<docs, builders, fallbacks, result>>
    /\ UNCHANGED entryVars

\* The fallbacks a test hands to build: test::fallbacks(), or the functions of
\* Config::new_from_builder on a host whose lookups succeed.
HarnessFallbacks == {TestFallbacks, ProdFallbacks(GoodEnv)}

\* config_builder.build(fallbacks)
Build ==
    /\ pc = "build"
    /\ \E fb \in HarnessFallbacks :
          /\ fallbacks' = Some(fb)
          /\ result' = build(merged, fb)
    /\ pc' = "done"
    /\ UNCHANGED <<docs, builders, merged, nmerged>>
    /\ UNCHANGED entryVars

Next == SetKey \/ Damage \/ ReadAll \/ Override \/ Build

Spec == Init /\ [][Next]_vars

----------------------------------------------------------------------------
(* The constructors of Config, called on a host with a configuration file,  *)
(* a command line and an environment.                                       *)

\* How many things the operator and the host have supplied or broken.
EntryCount ==
    PresentIn(file.doc)
    + (IF file.readable THEN 0 ELSE 1)
    + Cardinality({name \in OptNames : opts[name].some})
    + Len(opts.node_labels)
    + (IF opts.bootstrap_file = BOOTSTRAP_FILE THEN 0 ELSE 1)
    + (IF env.hostname.ok THEN 0 ELSE 1)
    + (IF env.home_dir.some THEN 0 ELSE 1)
    + (IF env.resolver = "good" THEN 0 ELSE 1)

\* The operator creates the configuration file, holding {}.
CreateFile ==
    /\ pc = "input"
    /\ ~file.exists
    /\ file' = [file EXCEPT !.exists = TRUE]
    /\ UNCHANGED <<pc, merged, fallbacks, result, opts, env, call,
                   cli_builder, config_file_builder>>
    /\ UNCHANGED harnessVars

\* The operator writes a key into the configuration file.
SetFileKey ==
    /\ pc = "input"
    /\ file.exists
    /\ EntryCount < MaxPresent
    /\ \E k \in JsonKeys :
          /\ ~file.doc.obj[k].some
          /\ \E raw \in RawChoices(1, k) :
                file' = [file EXCEPT !.doc.obj[k] = Some(raw)]
    /\ UNCHANGED <<pc, merged, fallbacks, result, opts, env, call,
                   cli_builder, config_file_builder>>
    /\ UNCHANGED harnessVars

\* The file is left with a trailing comma, or is made unreadable.
DamageFile ==
    /\ pc = "input"
    /\ file.exists
    /\ EntryCount < MaxPresent
    /\ \/ /\ file.doc.syntax = "ok"
          /\ file' = [file EXCEPT !.doc.syntax = "trailing comma"]
       \/ /\ file.readable
          /\ file' = [file EXCEPT !.readable = FALSE]
    /\ UNCHANGED <<pc, merged, fallbacks, result, opts, env, call,
                   cli_builder, config_file_builder>>
    /\ UNCHANGED harnessVars

\* The operator passes a flag or sets its environment variable.
PassFlag ==
    /\ pc = "input"
    /\ EntryCount < MaxPresent
    /\ \/ \E name \in OptNames :
             /\ ~opts[name].some
             /\ \E v \in OptChoices(name) :
                   opts' = [opts EXCEPT ![name] = Some(v)]
       \/ /\ opts.bootstrap_file = BOOTSTRAP_FILE
          /\ opts' = [opts EXCEPT !.bootstrap_file = <<"my", "bootstrap", "2">>]
    /\ UNCHANGED <<pc, merged, fallbacks, result, file, env, call,
                   cli_builder, config_file_builder>>
    /\ UNCHANGED harnessVars

\* The operator adds a token to --node-labels.
AddLabel ==
    /\ pc = "input"
    /\ EntryCount < MaxPresent
    /\ \E token \in LabelTokens :
          opts' = [opts EXCEPT !.node_labels = Append(@, token)]
    /\ UNCHANGED <<pc, merged, fallbacks, result, file, env, call,
                   cli_builder, config_file_builder>>
    /\ UNCHANGED harnessVars

\* A lookup of the host does not work.
BreakEnv ==
    /\ pc = "input"
    /\ EntryCount < MaxPresent
    /\ \/ /\ env.hostname.ok
          /\ env' = [env EXCEPT !.hostname =
                        Err([msg |-> "hostname lookup failed",
                             input |-> Str(<<>>)])]
       \/ /\ env.home_dir.some
          /\ env' = [env EXCEPT !.home_dir = None]
       \/ /\ env.resolver = "good"
          /\ \E r \in {"down", "loopback", "multi"} :
                env' = [env EXCEPT !.resolver = r]
    /\ UNCHANGED <<pc, merged, fallbacks, result, opts, file, call,
                   cli_builder, config_file_builder>>
    /\ UNCHANGED harnessVars

Finish(c, ran) ==
    /\ pc' = "done"
    /\ call' = Some(c)
    /\ cli_builder' = ran.cli_builder
    /\ config_file_builder' = ran.config_file_builder
    /\ merged' = ran.builder
    /\ fallbacks' = ran.fallbacks
    /\ result' = ran.result
    /\ UNCHANGED <<opts, file, env>>
    /\ UNCHANGED harnessVars

\* Config::new_from_file(filename)
NewFromFile ==
    /\ pc = "input"
    /\ Finish([fn |-> "new_from_file", path |-> Some(<<"given">>)],
              new_from_file(file, env))

\* Config::new_from_flags(version)
NewFromFlags ==
    /\ pc = "input"
    /\ Finish([fn |-> "new_from_flags", path |-> None],
              new_from_flags(opts, env))

\* Config::new_from_file_and_flags(version, config_file_path)
NewFromFileAndFlags ==
    /\ pc = "input"
    /\ \E config_file_path \in {None, Some(<<"given">>)} :
          Finish([fn |-> "new_from_file_and_flags",
                  path |-> config_file_path],
                 new_from_file_and_flags(opts, config_file_path, file, env))

\* Config::default_config(preferred_ip_family)
DefaultConfig ==
    /\ pc = "input"
    /\ \E family \in {empty_ip_addr, empty_ip_addr_v6} :
          Finish([fn |-> "default_config", path |-> None, family |-> family],
                 Ran(None, None, ConfigBuilderDefault, None,
                     default_config(family, env)))

NextEntry ==
    \/ CreateFile \/ SetFileKey \/ DamageFile \/ PassFlag \/ AddLabel
    \/ BreakEnv
    \/ NewFromFile \/ NewFromFlags \/ NewFromFileAndFlags \/ DefaultConfig

SpecEntry == Init /\ [][NextEntry]_vars

----------------------------------------------------------------------------
(* Properties of the merge and of the resolution *)

\* The fields whose value may be present but invalid (Option<Result<T>>), in
\* the order in which build resolves them, with the names build gives them.
FallibleFields == <<"server_addr", "server_port", "node_ip", "max_pods">>
FallibleSet == {FallibleFields[j] : j \in 1..Len(FallibleFields)}
LogicalName(n) ==
    CASE n = "server_addr" -> "server address"
      [] n = "server_port" -> "server port"
      [] n = "node_ip" -> "node IP"
      [] n = "max_pods" -> "maximum pods"
RawKey(n) ==
    CASE n = "server_addr" -> "listenerAddress"
      [] n = "server_port" -> "listenerPort"
      [] n = "node_ip" -> "nodeIP"
      [] n = "max_pods" -> "maxPods"
\* The resolved value of a fallible field in a Config.
Resolved(config, n) ==
    CASE n = "server_addr" -> config.server_config.addr
      [] n = "server_port" -> config.server_config.port
      [] n = "node_ip" -> config.node_ip
      [] n = "max_pods" -> config.max_pods

IsInvalid(b, n) == n \in FallibleSet /\ b[n].some /\ ~b[n].val.ok
IsValid(b, n) == b[n].some /\ (n \in FallibleSet => b[n].val.ok)
AnyInvalid(b) == \E n \in FallibleSet : IsInvalid(b, n)
Contains(text, word) == \E j \in 1..Len(text) : text[j] = word

\* Every document was parsed; Source(i) is the partial configuration of source i.
Parsed == \A i \in Sources : builders[i].some /\ builders[i].val.ok
Source(i) == builders[i].val.v
Built == Parsed /\ pc = "done"

\* C1: for partial configurations A (base) and B (override) and every field F,
\* merge(A,B).F is B.F when B.F is present (valid or invalid) and A.F when B.F
\* is absent.
C1_MergePerField ==
    (Parsed /\ nmerged = 2) =>
        \A n \in BuilderFields :
            merged[n] = IF Source(2)[n] # None THEN Source(2)[n]
                        ELSE Source(1)[n]

C1_Witness ==
    /\ Parsed /\ nmerged = 2
    /\ \E n \in BuilderFields :
          IsValid(Source(1), n) /\ IsInvalid(Source(2), n)
    /\ \E n \in BuilderFields : Source(1)[n].some /\ ~Source(2)[n].some

\* C2: if F is invalid in a source A and present in a later source B, the
\* resolution of the merge never reports A's error for F; when the value that
\* wins for F is valid and no field of the merge is invalid, resolution
\* succeeds with that value.
C2_OverriddenErrorNeverSurfaces ==
    Built =>
        \A n \in FallibleSet : \A i \in Sources, j \in Sources :
            (i < j /\ IsInvalid(Source(i), n) /\ Source(j)[n].some) =>
                /\ ~(result.status = "err"
                     /\ result.error.source = Source(i)[n].val.e)
                /\ (/\ IsValid(Source(j), n)
                    /\ \A k \in Sources : k > j => ~Source(k)[n].some
                    /\ ~AnyInvalid(merged))
                   => (result.status = "ok"
                       /\ Resolved(result.config, n) = Source(j)[n].val.v)

C2_Witness ==
    /\ Built
    /\ \E n \in FallibleSet :
          /\ IsInvalid(Source(1), n) /\ IsValid(Source(2), n)
          /\ ~Source(3)[n].some
          /\ result.status = "ok"
          /\ Resolved(result.config, n) = Source(2)[n].val.v

\* No invalid field comes before n in the order of resolution.
FirstInvalid(b, n) ==
    /\ IsInvalid(b, n)
    /\ \A j, l \in 1..Len(FallibleFields) :
          (FallibleFields[l] = n /\ j < l) => ~IsInvalid(b, FallibleFields[j])

NamesField(error, b, n) ==
    /\ Contains(error.text, LogicalName(n))
    /\ ~Contains(error.text, RawKey(n))
    /\ Contains(error.text, b[n].val.e.msg)
    /\ error.source = b[n].val.e

\* C3 as stated: every field that is invalid in the merged partial
\* configuration is named by the error of the resolution.
C3_EveryInvalidFieldNamed ==
    Built =>
        \A n \in FallibleSet :
            IsInvalid(merged, n) =>
                (result.status = "err" /\ NamesField(result.error, merged, n))

\* C3: if a field is invalid in the merged partial configuration, resolution
\* fails with an error; the error's text contains the logical name (not the
\* key of the document) of the invalid field that comes first in the order of
\* resolution, and wraps that field's parse failure.
C3_FirstInvalidFieldNamed ==
    Built =>
        /\ AnyInvalid(merged) => result.status = "err"
        /\ \A n \in FallibleSet :
              FirstInvalid(merged, n) =>
                  (result.status = "err"
                   /\ NamesField(result.error, merged, n))

C3_Witness ==
    /\ Built
    /\ IsInvalid(merged, "server_port") /\ IsInvalid(merged, "max_pods")
    /\ IsInvalid(Source(1), "server_port") /\ ~Source(2)["server_port"].some
    /\ result.status = "err"
    /\ Contains(result.error.text, "server port")

\* The state of field n in the source of highest precedence that supplies it.
RECURSIVE LastPresent(_, _)
LastPresent(n, i) ==
    IF i = 0 THEN None
    ELSE IF Source(i)[n].some THEN Source(i)[n]
    ELSE LastPresent(n, i - 1)

\* C4: after the sources are merged in increasing precedence, each field has
\* the state it has in the source of highest precedence in which it is
\* present, and is absent only if it is absent in every source.
C4_HighestPresentSourceWins ==
    (Parsed /\ nmerged >= 1) =>
        \A n \in BuilderFields :
            /\ merged[n] = LastPresent(n, nmerged)
            /\ (merged[n] = None
                  <=> \A i \in 1..nmerged : Source(i)[n] = None)

C4_Witness ==
    /\ Parsed /\ nmerged = 3
    /\ \E n \in FallibleSet :
          /\ IsValid(Source(1), n) /\ IsInvalid(Source(3), n)
          /\ merged[n] = Source(3)[n]
    /\ \E n \in BuilderFields :
          Source(2)[n].some /\ ~Source(3)[n].some /\ merged[n] = Source(2)[n]

\* C5: merge is associative: merging (A merged with B) with C gives, on every
\* field, what merging A with (B merged with C) gives.
C5_MergeAssociative ==
    (Parsed /\ nmerged = 3) =>
        merged = with_override(Source(1),
                               with_override(Source(2), Source(3)))

C5_Witness ==
    /\ Parsed /\ nmerged = 3
    /\ \E n \in FallibleSet :
          IsInvalid(Source(1), n) /\ IsValid(Source(2), n)
              /\ IsInvalid(Source(3), n)

\* What the fallbacks of the model yield for an empty partial configuration.
FallbackDefaults(fb) ==
    IF fb.kind = "test"
    THEN [node_ip |-> V4(4, 4, 4, 4),
          node_name |-> <<"f", "a", "l", "l", "b", "a", "c", "k">>,
          node_labels |-> <<>>,
          hostname |-> <<"f", "a", "l", "l", "b", "a", "c", "k">>,
          data_dir |-> <<"fallback", "data", "dir">>,
          max_pods |-> 110,
          server_config |->
              [tls_cert_file |-> <<"fallback", "cert", "path">>,
               tls_private_key_file |-> <<"fallback", "key", "path">>,
               addr |-> V4(0, 0, 0, 0),
               port |-> 3000]]
    ELSE [node_ip |-> V4(10, 0, 0, 7),
          node_name |-> <<"h", "o", "s", "t">>,
          node_labels |-> <<>>,
          hostname |-> <<"H", "o", "s", "t">>,
          data_dir |-> <<"home", "user", ".krustlet">>,
          max_pods |-> 110,
          server_config |->
              [tls_cert_file |->
                   <<"home", "user", ".krustlet", "config", "krustlet.crt">>,
               tls_private_key_file |->
                   <<"home", "user", ".krustlet", "config", "krustlet.key">>,
               addr |-> V4(0, 0, 0, 0),
               port |-> 3000]]

\* C6: resolving a partial configuration in which every field is absent
\* returns exactly the fallback defaults: the fallbacks' hostname and data
\* directory, port 3000, 110 pods, the unspecified address as bind address
\* (which is the preferred family handed to the node-IP fallback), the
\* certificate and key paths the fallbacks compute from the data directory,
\* the node IP of the node-IP fallback, the lower-cased hostname as node name
\* and no labels.
C6_EmptyResolvesToDefaults ==
    (Built /\ merged = ConfigBuilderDefault) =>
        /\ result.status = "ok"
        /\ result.config = FallbackDefaults(fallbacks.val)
        /\ is_unspecified(result.config.server_config.addr)
        /\ result.calls =
              <<Call("hostname", <<>>), Call("data_dir", <<>>),
                Call("cert_path", <<result.config.data_dir>>),
                Call("key_path", <<result.config.data_dir>>),
                Call("node_ip", <<result.config.hostname,
                                  result.config.server_config.addr>>)>>

C6_Witness ==
    /\ Built /\ merged = ConfigBuilderDefault
    /\ fallbacks.val.kind = "prod"
    /\ result.status = "ok"
    /\ result.config.node_name = <<"h", "o", "s", "t">>

----------------------------------------------------------------------------
(* Properties of the constructors *)

Called(fns) == pc = "done" /\ call.some /\ call.val.fn \in fns

\* The key of the document and the option of the command line behind a field.
KeyOf(n) ==
    CASE n = "node_ip" -> "nodeIP" [] n = "hostname" -> "hostname"
      [] n = "node_name" -> "nodeName" [] n = "data_dir" -> "dataDir"
      [] n = "node_labels" -> "nodeLabels" [] n = "max_pods" -> "maxPods"
      [] n = "server_addr" -> "listenerAddress"
      [] n = "server_port" -> "listenerPort"
      [] n = "server_tls_cert_file" -> "tlsCertificateFile"
      [] n = "server_tls_private_key_file" -> "tlsPrivateKeyFile"
OptOf(n) ==
    CASE n = "server_addr" -> "addr" [] n = "server_port" -> "port"
      [] n = "server_tls_cert_file" -> "tls_cert_file"
      [] n = "server_tls_private_key_file" -> "tls_private_key_file"
      [] OTHER -> n

\* A label token that yields a pair: its key is not empty.
GoodToken(t) == t # <<>> /\ t[1] # "="

CliSupplies(n) ==
    IF n = "node_labels"
    THEN \E j \in 1..Len(opts.node_labels) : GoodToken(opts.node_labels[j])
    ELSE opts[OptOf(n)].some
CliValue(n) ==
    IF n = "node_labels" THEN cli_builder.val.node_labels.val
    ELSE opts[OptOf(n)].val

\* The file is consulted by new_from_file_and_flags and holds the key.
FileSupplies(n) ==
    /\ file.exists
    /\ call.val.path.some \/ env.home_dir.some
    /\ file.doc.obj[KeyOf(n)].some
FileValue(n) ==
    LET raw == file.doc.obj[KeyOf(n)].val
    IN CASE n \in {"node_ip", "server_addr"} -> [v |-> 4, a |-> raw.s]
         [] n \in {"max_pods", "server_port"} -> raw.n
         [] n = "node_labels" -> raw.m
         [] OTHER -> raw.s

\* The value of a field in a Config.
ConfigField(config, n) ==
    CASE n \in FallibleSet -> Resolved(config, n)
      [] n = "server_tls_cert_file" -> config.server_config.tls_cert_file
      [] n = "server_tls_private_key_file" ->
            config.server_config.tls_private_key_file
      [] OTHER -> config[n]

\* The default or fallback of a field, given the rest of the Config.
DefaultValue(config, n) ==
    CASE n = "hostname" -> env.hostname.v
      [] n = "data_dir" -> env.home_dir.val \o <<".krustlet">>
      [] n = "server_addr" -> V4(0, 0, 0, 0)
      [] n = "server_tls_cert_file" ->
            config.data_dir \o <<"config", "krustlet.crt">>
      [] n = "server_tls_private_key_file" ->
            config.data_dir \o <<"config", "krustlet.key">>
      [] n = "server_port" -> 3000
      [] n = "node_ip" ->
            default_node_ip(config.hostname, config.server_config.addr, env).v
      [] n = "node_name" -> sanitize_hostname(config.hostname)
      [] n = "max_pods" -> 110
      [] n = "node_labels" -> <<>>

\* C7: in the pipeline of file and flags every resolved field is the value of
\* the command line when the command line supplies it, otherwise the value of
\* the file when the file supplies it, otherwise the default or fallback.
C7_CliOverFileOverDefaults ==
    (Called({"new_from_file_and_flags"}) /\ result.status = "ok") =>
        \A n \in BuilderFields :
            ConfigField(result.config, n) =
                IF CliSupplies(n) THEN CliValue(n)
                ELSE IF FileSupplies(n) THEN FileValue(n)
                ELSE DefaultValue(result.config, n)

C7_Witness ==
    /\ Called({"new_from_file_and_flags"}) /\ result.status = "ok"
    /\ CliSupplies("server_port") /\ FileSupplies("server_port")
    /\ result.config.server_config.port = 1232
    /\ ~CliSupplies("hostname") /\ FileSupplies("hostname")
    /\ result.config.hostname = <<"K", "h", "1">>
    /\ result.config.max_pods = 110

\* A constructor that loads the file at a path it was given.
LoadsGivenPath ==
    /\ Called({"new_from_file", "new_from_file_and_flags"})
    /\ call.val.path.some

LoadsMalformedFile ==
    /\ Called({"new_from_file", "new_from_file_and_flags"})
    /\ call.val.path.some \/ env.home_dir.some
    /\ file.exists /\ file.readable
    /\ file.doc.syntax # "ok"

\* C9: a malformed configuration file is a fatal error that carries the
\* parser's message: no configuration is produced, and the pipeline of file
\* and flags halts even when the command line supplies values.
C9_MalformedFileIsFatal ==
    LoadsMalformedFile =>
        /\ config_file_builder.some /\ ~config_file_builder.val.ok
        /\ config_file_builder.val.e.msg = file.doc.syntax
        /\ result.status = "panic"
        /\ result.error.msg = file.doc.syntax

C9_Witness ==
    /\ LoadsMalformedFile
    /\ call.val.fn = "new_from_file_and_flags"
    /\ opts.port.some /\ opts.hostname.some
    /\ result.status = "panic"

\* C10 as stated: new_from_file panics if the file does not exist,
\* new_from_file_and_flags panics if a path is given and the file does not
\* exist, and only without a path and without the default file is the
\* configuration determined from the flags alone without error.
C10_MissingFilePanics ==
    /\ (LoadsGivenPath /\ ~file.exists) => result.status = "panic"
    /\ (Called({"new_from_file_and_flags"}) /\ ~file.exists
            /\ result.status = "ok")
          => ~call.val.path.some

----------------------------------------------------------------------------
(* Properties of the fallbacks *)

\* A constructor of Config that reached build: the file, if any, was loaded.
BuiltByConstructor ==
    /\ Called({"new_from_file", "new_from_flags", "new_from_file_and_flags"})
    /\ fallbacks.some

\* The lookup behind the fallback of a field that no source supplies fails.
HostnameLookupFails ==
    ~merged.hostname.some /\ ~default_hostname(env).ok
DataDirLookupFails ==
    ~merged.data_dir.some /\ ~default_data_dir(env).ok
\* The hostname and the bind address that the node-IP fallback is given.
HostnameForNodeIp ==
    IF merged.hostname.some THEN merged.hostname.val
    ELSE default_hostname(env).v
AddrForNodeIp ==
    IF merged.server_addr.some THEN merged.server_addr.val.v
    ELSE empty_ip_addr
\* build reaches the step of node_ip: no earlier step has failed.
ReachesNodeIp ==
    /\ ~HostnameLookupFails /\ ~DataDirLookupFails
    /\ ~IsInvalid(merged, "server_addr") /\ ~IsInvalid(merged, "server_port")
NodeIpLookupFails ==
    /\ ReachesNodeIp
    /\ ~merged.node_ip.some
    /\ ~default_node_ip(HostnameForNodeIp, AddrForNodeIp, env).ok

\* C11 as stated: a fallback whose lookup fails, for a field that is absent in
\* every source, makes resolution return an error value that names the field.
C11_FallbackFailureIsFieldError ==
    BuiltByConstructor =>
        /\ HostnameLookupFails =>
              (result.status = "err"
               /\ Contains(result.error.text, "hostname"))
        /\ (~HostnameLookupFails /\ DataDirLookupFails) =>
              (result.status = "err"
               /\ Contains(result.error.text, "data directory"))
        /\ NodeIpLookupFails =>
              (result.status = "err"
               /\ Contains(result.error.text, "node IP"))

\* C11: when the lookup of a fallback fails for a field that is absent in
\* every source, and no earlier step of the resolution has failed, the
\* constructors of Config panic with a message that names the default that
\* could not be obtained; no configuration is returned, and no error value.
\* Config::default_config returns the error of the lookup itself.
C11_FallbackFailurePanics ==
    /\ BuiltByConstructor =>
          /\ HostnameLookupFails =>
                (result.status = "panic"
                 /\ result.msg = "unable to get default hostname")
          /\ (~HostnameLookupFails /\ DataDirLookupFails) =>
                (result.status = "panic"
                 /\ result.msg = "unable to get default data directory")
          /\ NodeIpLookupFails =>
                (result.status = "panic"
                 /\ result.msg = "unable to get default node IP")
          /\ (HostnameLookupFails \/ DataDirLookupFails \/ NodeIpLookupFails)
                => result.status # "ok"
    /\ Called({"default_config"}) =>
          /\ ~default_hostname(env).ok =>
                result = [status |-> "err", error |-> default_hostname(env).e]
          /\ (default_hostname(env).ok /\ ~default_data_dir(env).ok) =>
                result = [status |-> "err", error |-> default_data_dir(env).e]
          /\ (/\ default_hostname(env).ok /\ default_data_dir(env).ok
              /\ ~default_node_ip(env.hostname.v, call.val.family, env).ok) =>
                result = [status |-> "err",
                          error |-> default_node_ip(env.hostname.v,
                                                    call.val.family, env).e]

C11_Witness ==
    /\ BuiltByConstructor
    /\ call.val.fn = "new_from_file_and_flags"
    /\ file.exists /\ file.doc.obj["hostname"].some
    /\ opts.port.some
    /\ NodeIpLookupFails
    /\ env.resolver = "loopback"
    /\ result.status = "panic"
    /\ result.msg = "unable to get default node IP"

----------------------------------------------------------------------------
(* Properties of the labels *)

\* The key of a token: what stands before every '='.
TokenKey(t) ==
    LET n == CHOOSE j \in 0..Len(t) :
                 /\ \A l \in 1..j : t[l] # "="
                 /\ j < Len(t) => t[j + 1] = "="
    IN SubSeq(t, 1, n)
\* The value of a token: what stands after the '=' that ends its key.
TokenValue(t) ==
    IF Len(TokenKey(t)) = Len(t) THEN <<>>
    ELSE SubSeq(t, Len(TokenKey(t)) + 2, Len(t))

\* The keys of the tokens, and the last token that has a key.
LabelKeys(tokens) ==
    {TokenKey(tokens[j]) : j \in 1..Len(tokens)} \ {<<>>}
LastWith(tokens, k) ==
    CHOOSE j \in 1..Len(tokens) :
        /\ TokenKey(tokens[j]) = k
        /\ \A l \in 1..Len(tokens) : TokenKey(tokens[l]) = k => l <= j

\* The constructor has parsed the command line.
ParsedFlags ==
    /\ Called({"new_from_flags", "new_from_file_and_flags"})
    /\ cli_builder.some

\* C12: for any list of tokens, each token is split on its first '=' only, a
\* token without '=' gives its key with the empty value, a token whose key is
\* empty is dropped without error, and of the tokens with one key the last
\* gives the value of the key in the mapping.
C12_LabelParsing ==
    ParsedFlags =>
        LET tokens == opts.node_labels
            labels == cli_builder.val.node_labels
        IN /\ labels.some <=> LabelKeys(tokens) # {}
           /\ labels.some =>
                 /\ DOMAIN labels.val = LabelKeys(tokens)
                 /\ \A k \in LabelKeys(tokens) :
                       labels.val[k] = TokenValue(tokens[LastWith(tokens, k)])
           /\ \A j \in 1..Len(tokens) :
                 /\ tokens[j] = <<"a", "=", "b", "=", "c">> =>
                       (TokenKey(tokens[j]) = <<"a">>
                        /\ TokenValue(tokens[j]) = <<"b", "=", "c">>)
                 /\ tokens[j] = <<"a">> =>
                       (TokenKey(tokens[j]) = <<"a">>
                        /\ TokenValue(tokens[j]) = <<>>)
                 /\ tokens[j] \in {<<"=", "b">>, <<>>} =>
                       TokenKey(tokens[j]) = <<>>
           /\ (result.status = "ok" /\ labels.some) =>
                 result.config.node_labels = labels.val

C12_Witness ==
    /\ ParsedFlags
    /\ opts.node_labels = <<<<"=", "b">>, <<"a">>, <<"a", "=", "b", "=", "c">>>>
    /\ cli_builder.val.node_labels = Some((<<"a">> :> <<"b", "=", "c">>))
    /\ result.status = "ok"
    /\ result.config.node_labels = (<<"a">> :> <<"b", "=", "c">>)

----------------------------------------------------------------------------
(* Properties of the discovery of the node IP *)

\* default_node_ip was called: by build through the fallback, or by
\* Config::default_config.
DiscoveryRan ==
    \/ BuiltByConstructor /\ ReachesNodeIp /\ ~merged.node_ip.some
    \/ /\ Called({"default_config"})
       /\ default_hostname(env).ok /\ default_data_dir(env).ok
\* The hostname and the preferred family it was given.
DiscoveryHost ==
    IF call.val.fn = "default_config" THEN env.hostname.v
    ELSE HostnameForNodeIp
DiscoveryFamily ==
    IF call.val.fn = "default_config" THEN call.val.family ELSE AddrForNodeIp
\* The lookup of the name answers with addresses, in this order.
Resolves == DiscoveryHost \in DOMAIN HostsOf(env)
Candidates == HostsOf(env)[DiscoveryHost]

\* The four conditions on the address.
Qualifies(ip, family) ==
    /\ ~is_loopback(ip) /\ ~is_multicast(ip) /\ ~is_unspecified(ip)
    /\ ip.v = family.v

\* C13: the discovery of the node IP returns the first address, in the order
\* of the lookup, that is not loopback, not multicast, not unspecified and of
\* the preferred family; when no address of the lookup qualifies it fails
\* with the error that asks for a node IP to be specified manually; it never
\* returns an address that breaks one of the four conditions.
C13_FirstQualifyingAddress ==
    (DiscoveryRan /\ Resolves) =>
        LET n == Len(Candidates)
            some == \E j \in 1..n : Qualifies(Candidates[j], DiscoveryFamily)
        IN /\ (some /\ ~IsInvalid(merged, "max_pods")) => result.status = "ok"
           /\ result.status = "ok" =>
                 /\ Qualifies(result.config.node_ip, DiscoveryFamily)
                 /\ \E j \in 1..n :
                       /\ Candidates[j] = result.config.node_ip
                       /\ \A l \in 1..(j - 1) :
                             ~Qualifies(Candidates[l], DiscoveryFamily)
           /\ ~some =>
                 IF call.val.fn = "default_config"
                 THEN /\ result.status = "err"
                      /\ result.error.msg = "unable to find default IP address for node. Please specify a node IP manually"
                 ELSE /\ result.status = "panic"
                      /\ result.msg = "unable to get default node IP"

C13_Witness ==
    /\ DiscoveryRan /\ Resolves
    /\ call.val.fn = "new_from_flags"
    /\ env.resolver = "multi"
    /\ opts.hostname.some
    /\ result.status = "ok"
    /\ result.config.node_ip = V4(10, 0, 0, 5)

----------------------------------------------------------------------------
(* Properties of the bootstrap file *)

\* The constructor returned a Config.
Resolves_Config == pc = "done" /\ call.some /\ result.status = "ok"

\* C14 as stated: on every path of resolution (defaults only, file only,
\* flags only, file and flags) the bootstrap file of the resolved
\* configuration is the value of the command line or the environment when it
\* is given there, and /etc/kubernetes/bootstrap-kubelet.conf otherwise.
C14_BootstrapFileFromCliOrDefault ==
    Resolves_Config =>
        /\ "bootstrap_file" \in DOMAIN result.config
        /\ result.config.bootstrap_file =
              IF cli_builder.some THEN opts.bootstrap_file ELSE BOOTSTRAP_FILE

----------------------------------------------------------------------------
(* Properties of the node name *)

UpperLetters == <<"A", "B", "C", "D", "E", "F", "G", "H", "I", "J", "K", "L",
                  "M", "N", "O", "P", "Q", "R", "S", "T", "U", "V", "W", "X",
                  "Y", "Z">>
LowerLetters == <<"a", "b", "c", "d", "e", "f", "g", "h", "i", "j", "k", "l",
                  "m", "n", "o", "p", "q", "r", "s", "t", "u", "v", "w", "x",
                  "y", "z">>
\* low is the string up with every upper-case letter replaced by its
\* lower-case letter and every other character in its place.
IsLowerCased(low, up) ==
    /\ Len(low) = Len(up)
    /\ \A j \in 1..Len(up) :
          \/ \E i \in 1..26 : up[j] = UpperLetters[i] /\ low[j] = LowerLetters[i]
          \/ /\ \A i \in 1..26 : up[j] # UpperLetters[i]
             /\ low[j] = up[j]

\* C15: when the node name is absent, the resolved node name is the
\* lower-cased resolved hostname, whether it was supplied or came from the
\* fallback, with no other character changed or removed; when the node name
\* is valid it is used unchanged, without lower-casing.
C15_NodeNameFromHostname ==
    (Built /\ result.status = "ok") =>
        /\ result.config.hostname =
              IF merged.hostname.some THEN merged.hostname.val
              ELSE fallbacks_hostname(fallbacks.val).v
        /\ IF merged.node_name.some
           THEN result.config.node_name = merged.node_name.val
           ELSE IsLowerCased(result.config.node_name, result.config.hostname)

C15_Witness ==
    /\ Built /\ result.status = "ok"
    /\ ~merged.node_name.some
    /\ Source(2).hostname.some /\ ~Source(3).hostname.some
    /\ result.config.hostname = <<"K", "h", "2">>
    /\ result.config.node_name = <<"k", "h", "2">>

----------------------------------------------------------------------------
(* Properties of the order of the resolution *)

\* The steps of the resolution in their order, and the step of each fallback.
Steps == <<"hostname", "data_dir", "server_addr", "server_tls_cert_file",
           "server_tls_private_key_file", "server_port", "node_ip",
           "node_name", "max_pods">>
StepOf(n) == CHOOSE k \in 1..Len(Steps) : Steps[k] = n
FallbackNames == {"hostname", "data_dir", "cert_path", "key_path", "node_ip"}
FieldOfFallback(fn) ==
    CASE fn = "cert_path" -> "server_tls_cert_file"
      [] fn = "key_path" -> "server_tls_private_key_file"
      [] OTHER -> fn

WasCalled(fn) == \E i \in 1..Len(result.calls) : result.calls[i].fn = fn
ArgsOf(fn) ==
    result.calls[CHOOSE i \in 1..Len(result.calls) :
                     result.calls[i].fn = fn].args

\* The step at which the resolution stopped: the step of the field that the
\* error names, or past the last step when a Config was returned.
StoppedAt ==
    IF result.status = "ok" THEN Len(Steps) + 1
    ELSE StepOf(CHOOSE n \in FallibleSet :
                    Contains(result.error.text, LogicalName(n)))

\* The final values of the fields that fallbacks depend on.
FinalHostname ==
    IF merged.hostname.some THEN merged.hostname.val
    ELSE FallbackDefaults(fallbacks.val).hostname
FinalDataDir ==
    IF merged.data_dir.some THEN merged.data_dir.val
    ELSE FallbackDefaults(fallbacks.val).data_dir
FinalServerAddr ==
    IF merged.server_addr.some THEN merged.server_addr.val.v
    ELSE V4(0, 0, 0, 0)

\* C16: resolution runs in the order hostname, data_dir, server address,
\* certificate path, key path, server port, node IP, node name, maximum pods;
\* a fallback is called only after the fields it depends on are resolved and
\* is given their final values: the certificate and key path fallbacks the
\* resolved data directory, the node-IP fallback the resolved hostname and
\* the resolved bind address.
C16_OrderedResolution ==
    Built =>
        /\ \A i, j \in 1..Len(result.calls) :
              i < j => StepOf(FieldOfFallback(result.calls[i].fn))
                          < StepOf(FieldOfFallback(result.calls[j].fn))
        /\ \A fn \in FallbackNames :
              WasCalled(fn) <=>
                  /\ ~merged[FieldOfFallback(fn)].some
                  /\ StepOf(FieldOfFallback(fn)) < StoppedAt
        /\ WasCalled("cert_path") => ArgsOf("cert_path") = <<FinalDataDir>>
        /\ WasCalled("key_path") => ArgsOf("key_path") = <<FinalDataDir>>
        /\ WasCalled("node_ip") =>
              ArgsOf("node_ip") = <<FinalHostname, FinalServerAddr>>
        /\ result.status = "ok" =>
              /\ result.config.hostname = FinalHostname
              /\ result.config.data_dir = FinalDataDir
              /\ result.config.server_config.addr = FinalServerAddr

C16_Witness ==
    /\ Built /\ result.status = "ok"
    /\ merged.hostname.some /\ merged.data_dir.some /\ merged.server_addr.some
    /\ result.calls =
          <<Call("cert_path", <<merged.data_dir.val>>),
            Call("key_path", <<merged.data_dir.val>>),
            Call("node_ip", <<merged.hostname.val,
                              merged.server_addr.val.v>>)>>

\* C17: resolution stops at the first invalid field in the order of
\* resolution: when several fields of the merged partial configuration are
\* invalid, the error is the one of the earliest of them (server address,
\* server port, node IP, maximum pods), and no fallback of a later step is
\* invoked; the node-IP fallback is never invoked when the server address or
\* the server port is invalid.
C17_StopsAtFirstInvalid ==
    (Built /\ AnyInvalid(merged)) =>
        /\ result.status = "err"
        /\ \A n \in FallibleSet :
              FirstInvalid(merged, n) =>
                  /\ result.error.source = merged[n].val.e
                  /\ Contains(result.error.text, LogicalName(n))
                  /\ \A m \in FallibleSet \ {n} :
                        /\ ~Contains(result.error.text, LogicalName(m))
                        /\ IsInvalid(merged, m) =>
                              result.error.source # merged[m].val.e
                  /\ \A i \in 1..Len(result.calls) :
                        StepOf(FieldOfFallback(result.calls[i].fn)) < StepOf(n)
        /\ (IsInvalid(merged, "server_addr") \/ IsInvalid(merged, "server_port"))
              => ~WasCalled("node_ip")

C17_Witness ==
    /\ Built
    /\ IsInvalid(merged, "server_port") /\ IsInvalid(merged, "max_pods")
    /\ ~merged.node_ip.some
    /\ result.status = "err"
    /\ Contains(result.error.text, "server port")
    /\ WasCalled("key_path") /\ ~WasCalled("node_ip")

----------------------------------------------------------------------------
(* Properties of the hostname *)

\* The string ends with the port that the discovery of the node IP appends.
HasPortSuffix(str) ==
    Len(str) >= 3 /\ SubSeq(str, Len(str) - 2, Len(str)) = <<":", "8", "0">>

\* The hostname that was supplied, or the one of the host.
GivenHostname ==
    IF call.val.fn # "default_config" /\ merged.hostname.some
    THEN merged.hostname.val
    ELSE env.hostname.v

\* C18: the discovery of the node IP does not alter the resolved hostname:
\* it appends a port to the string it is given, yet the hostname of the
\* resulting configuration, and the hostname from which the default node name
\* is derived, is exactly the supplied or fallback hostname, without the
\* suffix, whether or not the node-IP fallback was invoked.
C18_HostnameKeptByDiscovery ==
    Resolves_Config =>
        /\ result.config.hostname = GivenHostname
        /\ ~HasPortSuffix(result.config.hostname)
        /\ (call.val.fn = "default_config" \/ ~merged.node_name.some) =>
              /\ ~HasPortSuffix(result.config.node_name)
              /\ IsLowerCased(result.config.node_name, GivenHostname)
        /\ DiscoveryRan =>
              to_socket_addrs(GivenHostname \o <<":", "8", "0">>, env).ok

C18_Witness ==
    /\ Resolves_Config
    /\ call.val.fn = "new_from_file"
    /\ DiscoveryRan
    /\ file.exists /\ file.doc.obj["hostname"].some
    /\ result.config.hostname = <<"K", "h", "1">>
    /\ result.config.node_name = <<"k", "h", "1">>
    /\ result.config.node_ip = V4(10, 0, 0, 9)

====
